---------------------------- MODULE Spec2Model ----------------------------
(***************************************************************************)
(* State-machine model of the FaceRec front end.                           *)
(*                                                                         *)
(*   CameraView    (src/unnamed/part_000)  the live analysis loop, the     *)
(*                 recorder and the registration dialog                    *)
(*   useCamera     (src/hooks/useCamera.ts)  the camera acquisition        *)
(*   BatchAnalyzer (src/components/BatchAnalyzer.tsx)  the batch pipeline  *)
(*   App           (src/App.tsx)  the roster and its persistence           *)
(*   MediaDisplay  (src/components/MediaDisplay.tsx)  the display scale    *)
(*                                                                         *)
(* The browser runs one task at a time: every action below is one task of  *)
(* the event loop (an event handler, a timer callback, the continuation of *)
(* an await, or a React passive effect).  A passive effect (useEffect) is   *)
(* run by React after the render that scheduled it has been committed, and *)
(* always before the next render of the component; the model keeps it as   *)
(* a step of its own, so that timer callbacks and promise continuations    *)
(* may run between the commit and the effect.                              *)
(***************************************************************************)
EXTENDS Integers, Sequences, FiniteSets, TLC

\* ---------------------------------------------------------------- bounds
MaxTicks == 3        \* timer callbacks of the analysis interval that fire
MaxTimers == 3       \* intervals created by window.setInterval
MaxItems == 4        \* files of one selection of the batch
MaxPeople == 2       \* entries of the roster

\* ------------------------------------------------------ program constants
CONCURRENCY_LIMIT == 3

\* ----------------------------------------------------------------- values
Null == "null"
NoTimer == 0                       \* analysisIntervalRef.current === null
\* answers of the collaborator; personCount need not be the number of faces
Results == {[faces |-> <<>>, personCount |-> 0],
            [faces |-> <<"Alice">>, personCount |-> 2]}
AnalysisError == "Failed to analyze image with Gemini API."
PropsVersions == {1, 2}            \* identity of the knownPeople/options props
FrameWidth == 640                  \* videoWidth of a camera frame
EmptyDataUrl == "data:,"           \* canvas.toDataURL of a canvas without pixels
NoSize == [width |-> 0, height |-> 0]   \* naturalSize before the image has loaded

\* ------------------------------------------------------------- JSON
\* JavaScript values: null, a number (by its text), the object {}, an object
\* with the keys id, name, image, and arrays of those
JNull == [t |-> "null"]
JNumber == [t |-> "number", text |-> "7"]
JObject == [t |-> "object"]
Person(id, name, image) ==
    [t |-> "person", id |-> id, name |-> name, image |-> image]
JArray(items) == [t |-> "array", items |-> items]

\* a JSON text is a sequence of tokens
Tok(k) == [k |-> k, s |-> ""]
StrTok(s) == [k |-> "string", s |-> s]
KeyTok(s) == [k |-> "key", s |-> s]
NumTok(s) == [k |-> "number", s |-> s]

RECURSIVE StringifyItems(_)

StringifyItem_NoImage(v) ==
    CASE v.t = "null"   -> <<Tok("null")>>
      [] v.t = "number" -> <<NumTok(v.text)>>
      [] v.t = "object" -> <<Tok("{"), Tok("}")>>
      [] v.t = "person" -> <<Tok("{"), KeyTok("id"), StrTok(v.id), Tok(","),
                             KeyTok("name"), StrTok(v.name), Tok(","),
                             KeyTok("image"), StrTok(""), Tok("}")>>

\* JSON.stringify of a value that is not an array
StringifyItem(v) ==
    CASE v.t = "null"   -> <<Tok("null")>>
      [] v.t = "number" -> <<NumTok(v.text)>>
      [] v.t = "object" -> <<Tok("{"), Tok("}")>>
      [] v.t = "person" -> <<Tok("{"), KeyTok("id"), StrTok(v.id), Tok(","),
                             KeyTok("name"), StrTok(v.name), Tok(","),
                             KeyTok("image"), StrTok(v.image), Tok("}")>>

StringifyItems(items) ==
    IF items = <<>> THEN <<>>
    ELSE IF Len(items) = 1 THEN StringifyItem(items[1])
    ELSE StringifyItem(items[1]) \o <<Tok(",")>> \o StringifyItems(Tail(items))

\* JSON.stringify(people) of an array
JSONstringify(items) == <<Tok("[")>> \o StringifyItems(items) \o <<Tok("]")>>

ParseFailure == [ok |-> FALSE, v |-> JNull, next |-> 0]

IsPersonText(toks, i) ==
    /\ i + 9 <= Len(toks)
    /\ toks[i] = Tok("{")
    /\ toks[i + 1] = KeyTok("id")    /\ toks[i + 2].k = "string"
    /\ toks[i + 3] = Tok(",")
    /\ toks[i + 4] = KeyTok("name")  /\ toks[i + 5].k = "string"
    /\ toks[i + 6] = Tok(",")
    /\ toks[i + 7] = KeyTok("image") /\ toks[i + 8].k = "string"
    /\ toks[i + 9] = Tok("}")

\* one value that is not an array, read at position i
ParseItem(toks, i) ==
    IF i > Len(toks) THEN ParseFailure
    ELSE IF toks[i].k = "null" THEN [ok |-> TRUE, v |-> JNull, next |-> i + 1]
    ELSE IF toks[i].k = "number"
      THEN [ok |-> TRUE, v |-> [t |-> "number", text |-> toks[i].s], next |-> i + 1]
    ELSE IF toks[i].k = "{" /\ i + 1 <= Len(toks) /\ toks[i + 1].k = "}"
      THEN [ok |-> TRUE, v |-> JObject, next |-> i + 2]
    ELSE IF IsPersonText(toks, i)
      THEN [ok |-> TRUE,
            v |-> Person(toks[i + 2].s, toks[i + 5].s, toks[i + 8].s),
            next |-> i + 10]
    ELSE ParseFailure

\* the elements of an array after position i, up to and including "]"
RECURSIVE ParseElems(_, _, _)
ParseElems(toks, i, acc) ==
    LET r == ParseItem(toks, i) IN
    IF ~r.ok THEN ParseFailure
    ELSE IF r.next > Len(toks) THEN ParseFailure
    ELSE IF toks[r.next].k = "]"
      THEN [ok |-> TRUE, v |-> JArray(Append(acc, r.v)), next |-> r.next + 1]
    ELSE IF toks[r.next].k = ","
      THEN ParseElems(toks, r.next + 1, Append(acc, r.v))
    ELSE ParseFailure

\* JSON.parse: ok is FALSE where JSON.parse throws a SyntaxError
JSONparse(toks) ==
    LET r == IF toks = <<>> THEN ParseFailure
             ELSE IF toks[1].k = "["
               THEN IF Len(toks) >= 2 /\ toks[2].k = "]"
                      THEN [ok |-> TRUE, v |-> JArray(<<>>), next |-> 3]
                      ELSE ParseElems(toks, 2, <<>>)
               ELSE ParseItem(toks, 1)
    IN IF r.ok /\ r.next = Len(toks) + 1 THEN [ok |-> TRUE, v |-> r.v]
       ELSE [ok |-> FALSE, v |-> JNull]

\* localStorage.getItem: null when nothing is stored, else the stored text
Absent == [present |-> FALSE, text |-> <<>>]
Stored(text) == [present |-> TRUE, text |-> text]

\* ------------------------------------------------------------- Number
\* A JavaScript Number is an IEEE 754 double: a significand of 53 binary
\* digits, and every operation rounds its exact result to the nearest Number,
\* ties to even.  A positive Number is [exp, hi, mid, lo]: its significand is
\* cut into pieces of 18, 18 and 17 digits (hi starts with the digit 1) and
\* its value is 0.<hi><mid><lo> * 2^exp.  The sizes of this model are far
\* from the ends of the exponent range.
Precision == 53
Limb == 18

RECURSIVE Pow2(_)
Pow2(n) == IF n = 0 THEN 1 ELSE 2 * Pow2(n - 1)

Zero == [exp |-> 0, hi |-> 0, mid |-> 0, lo |-> 0]

\* the number of binary digits of n
BitLength(n) ==
    CHOOSE k \in 0..30 : n < Pow2(k) /\ (k = 0 \/ Pow2(k - 1) <= n)

\* ties-to-even: the discarded part is more than half a unit in the last
\* place, or it is exactly half and the last kept digit is odd
RoundsUp(kept, roundDigit, sticky) ==
    roundDigit = 1 /\ (sticky \/ kept % 2 = 1)

\* one unit in the last place more
Increment(x) ==
    IF x.lo + 1 < Pow2(Precision - 2 * Limb) THEN [x EXCEPT !.lo = @ + 1]
    ELSE IF x.mid + 1 < Pow2(Limb) THEN [x EXCEPT !.lo = 0, !.mid = @ + 1]
    ELSE IF x.hi + 1 < Pow2(Limb) THEN [x EXCEPT !.lo = 0, !.mid = 0, !.hi = @ + 1]
    ELSE [exp |-> x.exp + 1, hi |-> Pow2(Limb - 1), mid |-> 0, lo |-> 0]

\* an integer below 2^18 as a Number
FromInt(n) ==
    IF n = 0 THEN Zero
    ELSE [exp |-> BitLength(n), hi |-> n * Pow2(Limb - BitLength(n)),
          mid |-> 0, lo |-> 0]

\* a / b of two integer-valued Numbers, 0 < b < 2^12: long division, 18
\* digits at a time, to 54 digits and a remainder
Divide(a, b) ==
    IF a = 0 THEN Zero
    ELSE LET top == (Pow2(Limb) * b - 1) \div a
             s == BitLength(top) - 1      \* the largest s with a * 2^s < 2^18 * b
             t1 == a * Pow2(s)
             t2 == (t1 % b) * Pow2(Limb)
             t3 == (t2 % b) * Pow2(Limb)
             d3 == t3 \div b
             x == [exp |-> Limb - s, hi |-> t1 \div b, mid |-> t2 \div b,
                   lo |-> d3 \div 2]
         IN IF RoundsUp(d3 \div 2, d3 % 2, t3 % b # 0) THEN Increment(x) ELSE x

\* n * d of an integer-valued Number n < 2^12 and a Number d: the exact
\* product piece by piece, then k digits too many are rounded away
Times(n, d) ==
    IF n = 0 \/ d = Zero THEN Zero
    ELSE LET loBits == Precision - 2 * Limb
             tlo == d.lo * n
             tmid == d.mid * n + tlo \div Pow2(loBits)
             thi == d.hi * n + tmid \div Pow2(Limb)
             plo == tlo % Pow2(loBits)
             pmid == tmid % Pow2(Limb)
             k == BitLength(thi) - Limb
             dropped == plo % Pow2(k)
             x == [exp |-> d.exp + k,
                   hi |-> thi \div Pow2(k),
                   mid |-> (thi % Pow2(k)) * Pow2(Limb - k) + pmid \div Pow2(k),
                   lo |-> (pmid % Pow2(k)) * Pow2(loBits - k) + plo \div Pow2(k)]
         IN IF k > 0 /\ RoundsUp(x.lo, dropped \div Pow2(k - 1),
                                  dropped % Pow2(k - 1) # 0)
              THEN Increment(x) ELSE x

\* a < b
Less(a, b) ==
    IF b = Zero THEN FALSE
    ELSE IF a = Zero THEN TRUE
    ELSE \/ a.exp < b.exp
         \/ a.exp = b.exp /\ a.hi < b.hi
         \/ a.exp = b.exp /\ a.hi = b.hi /\ a.mid < b.mid
         \/ a.exp = b.exp /\ a.hi = b.hi /\ a.mid = b.mid /\ a.lo < b.lo

AtMost(a, b) == a = b \/ Less(a, b)

\* Math.min(a, b)
MathMin(a, b) == IF Less(b, a) THEN b ELSE a

VARIABLES
    \* ---- CameraView
    mounted,              \* the CameraView instance is mounted
    stream,               \* useCamera's stream is non-null
    video,                \* videoRef.current: "absent", "playing", "paused", "ended"
    isAnalyzing,          \* useState
    isRecording,          \* useState
    recorderState,        \* mediaRecorderRef.current: Null, "recording", "inactive"
    analysisIntervalRef,  \* useRef: NoTimer or the id of an interval
    isProcessingFrame,    \* useRef: the reentrancy guard
    detectedFaces,        \* useState
    personCount,          \* useState
    error,                \* useState: Null or a message
    propsVer,             \* props (knownPeople, options) of the last render
    effectPending,        \* "none", "update" (deps changed), "unmount"
    timers,               \* live intervals: records [id, ver]
    nextTimerId,          \* ids handed out by window.setInterval
    liveCalls,            \* detectAndRecognizeFaces calls of the loop in flight
    invocations,          \* calls the loop has issued
    ticks,                \* interval callbacks that have fired
    streamActive,         \* the camera stream has a live track
    videoWidth,           \* videoRef.current.videoWidth (0 before the metadata)
    cameraError,          \* useCamera's error: Null or a message
    attempts,             \* calls of getCameraStream
    cameraFailure,        \* why the acquisition failed ("none" if it has not)
    mediaStream,          \* useCamera's effect: its local mediaStream is non-null
    currentRecorder,      \* mediaRecorderRef.current: NoRecorder or a recorder
    stopping,             \* recorders whose dataavailable and stop events are queued
    recordedChunksRef,    \* useRef: the chunks collected so far
    download,             \* the file the last onstop assembled, and from what
    \* ---- BatchAnalyzer
    imageFiles,           \* useState: sequence of ImageFileState
    isBatchLoading,       \* useState
    queue,                \* the run's shared queue (snapshots of items)
    worker,               \* the run's workers: "awaiting" or "finished"
    batchCalls,           \* detectAndRecognizeFaces calls of the run in flight
    runActive,            \* handleAnalyzeBatch has not yet passed Promise.all
    startStatus,          \* per item of the run's list: its status at the start
    submitted,            \* per item of the run's list: calls issued for it
    selectedImageId,      \* useState: 0 (null) or the id of an item
    \* ---- MediaDisplay of the batch view
    scale,                \* useState: a Number
    clientSize,           \* clientWidth and clientHeight of the container
    effectDims,           \* naturalWidth/naturalHeight the scale effect last ran with
    displayRan,           \* the scale effect has run since the mount
    faces,                \* the faces prop: the boxes drawn over the media
    \* ---- PhotoAnalyzer and VideoAnalyzer
    shot,                 \* per analyzer: its useState values
    shotCalls,            \* detectAndRecognizeFaces calls of the analyzers in flight
    selections,           \* per analyzer: files the user has selected so far
    \* ---- CameraView: registration dialog
    snapshot,             \* useState: Null or the captured data URL
    isRegistering,        \* useState
    \* ---- App: the roster
    knownPeople,          \* useState: a reference to an array, or another value
    arrays,               \* the arrays that are referenced: reference -> contents
    storage,              \* localStorage's entry 'knownPeople'
    loaded,               \* the load effect has run
    appCrashed,           \* a render of App has thrown
    rosterCalls,          \* the recognition call under observation, if in flight
    rendered,             \* knownPeople as the last render of App saw it
    stale,                \* the last roster operation came from a render that was not the latest
    \* ---- history
    lastOp,               \* the step taken last
    pre                   \* what was displayed before the step taken last

liveVars == <<mounted, stream, video, isAnalyzing, isRecording, recorderState,
              analysisIntervalRef, isProcessingFrame, detectedFaces,
              personCount, error, propsVer, effectPending, timers,
              nextTimerId, liveCalls, invocations, ticks, streamActive,
              videoWidth, cameraError, attempts, cameraFailure, mediaStream,
              currentRecorder, stopping, recordedChunksRef, download>>
cameraVars == <<cameraError, attempts, cameraFailure, mediaStream>>
recordingVars == <<currentRecorder, stopping, recordedChunksRef, download>>
batchVars == <<imageFiles, isBatchLoading, queue, worker, batchCalls,
               runActive, startStatus, submitted>>
rosterVars == <<snapshot, isRegistering, knownPeople, arrays, storage, loaded,
                appCrashed, rosterCalls, rendered, stale>>
shotVars == <<shot, shotCalls, selections>>
displayVars == <<selectedImageId, scale, clientSize, effectDims, displayRan,
                 faces, shotVars>>
vars == <<liveVars, batchVars, rosterVars, displayVars, lastOp, pre>>

Shown == [faces |-> detectedFaces, personCount |-> personCount, error |-> error]

\* =================================================================
\* CameraView: the live analysis loop
\* =================================================================

\* captureFrame: null without a video element or a 2d context, else the data
\* URL of a canvas of the video's size (w stands for videoWidth and
\* videoHeight, which are zero together); toDataURL of an empty canvas is
\* the string "data:,"
captureFrame(v, ctxOk, w) ==
    IF v = "absent" THEN Null
    ELSE IF ~ctxOk THEN Null
    ELSE IF w = 0 THEN EmptyDataUrl
    ELSE "data:image/jpeg"

TickSkips_NoReentrancyGuard(processing, v) ==
    v = "absent" \/ v = "paused" \/ v = "ended"

TickSkips_NoEndedCheck(processing, v) ==
    processing \/ v = "absent" \/ v = "paused"

\* the guard of analyzeRealtimeFrame's first line: TRUE when the tick returns
TickSkips(processing, v) ==
    processing \/ v = "absent" \/ v = "paused" \/ v = "ended"

\* ---- useCamera: the acquisition of the camera
\* what the try block of getCameraStream may throw
UnsupportedError ==
    [dom |-> FALSE, name |-> "Error",
     message |-> "Camera not supported by this browser."]
\* the rejections of getUserMedia, by cause: the user or a policy denies the
\* camera, or something else fails (no camera is attached; a failure that is
\* not a DOMException)
Rejections ==
    [denied |-> {[dom |-> TRUE, name |-> "NotAllowedError",
                  message |-> "Permission denied"]},
     unknown |-> {[dom |-> TRUE, name |-> "NotFoundError",
                   message |-> "Requested device not found"],
                  [dom |-> FALSE, name |-> "TypeError",
                   message |-> "Failed to execute 'getUserMedia'"]}]
FailureCauses == {"unsupported", "denied", "unknown"}
ErrorsOf(cause) ==
    IF cause = "unsupported" THEN {UnsupportedError} ELSE Rejections[cause]

\* the catch block: the message for what was thrown
CatchMessage(err) ==
    IF err.dom
      THEN IF err.name = "NotAllowedError"
             THEN "Camera permission denied. Please allow camera access in your browser settings."
             ELSE "Error accessing camera: " \o err.message
      ELSE "An unknown error occurred while accessing the camera."

\* getUserMedia has been called and has not settled
AcquisitionPending ==
    attempts > 0 /\ ~mediaStream /\ cameraError = Null

\* the effect of useCamera on [videoRef] (the ref never changes: it runs after
\* the mount only): getCameraStream up to its await; without mediaDevices it
\* throws into its own catch.  CameraView's effect on [cameraError] copies
\* the message into error.
getCameraStream ==
    /\ mounted /\ attempts = 0
    /\ attempts' = attempts + 1
    /\ \E supported \in BOOLEAN :
         IF supported
           THEN UNCHANGED <<cameraError, cameraFailure, error>>
           ELSE /\ cameraError' = CatchMessage(UnsupportedError)
                /\ error' = cameraError'
                /\ cameraFailure' = "unsupported"
    /\ lastOp' = "getCameraStream"
    /\ pre' = Shown
    /\ UNCHANGED <<mounted, stream, streamActive, video, videoWidth,
                   isAnalyzing, isRecording, recorderState,
                   analysisIntervalRef, isProcessingFrame, detectedFaces,
                   personCount, propsVer, effectPending, timers, nextTimerId,
                   liveCalls, invocations, ticks, mediaStream>>
    /\ UNCHANGED recordingVars
    /\ UNCHANGED <<batchVars, rosterVars, displayVars>>

\* getUserMedia rejects: the catch block, then CameraView's effect
AcquisitionFailed ==
    /\ mounted /\ AcquisitionPending
    /\ \E cause \in DOMAIN Rejections : \E err \in Rejections[cause] :
         /\ cameraError' = CatchMessage(err)
         /\ error' = cameraError'
         /\ cameraFailure' = cause
    /\ lastOp' = "AcquisitionFailed"
    /\ pre' = Shown
    /\ UNCHANGED <<mounted, stream, streamActive, video, videoWidth,
                   isAnalyzing, isRecording, recorderState,
                   analysisIntervalRef, isProcessingFrame, detectedFaces,
                   personCount, propsVer, effectPending, timers, nextTimerId,
                   liveCalls, invocations, ticks, attempts, mediaStream>>
    /\ UNCHANGED recordingVars
    /\ UNCHANGED <<batchVars, rosterVars, displayVars>>

\* useCamera: getUserMedia resolved: the effect's mediaStream is assigned,
\* setStream (which does nothing once the component is unmounted), srcObject
\* is assigned if the element is there; the element has no metadata yet
StreamAcquired ==
    /\ AcquisitionPending
    /\ mediaStream' = TRUE
    /\ stream' = mounted
    /\ streamActive' = TRUE
    /\ lastOp' = "StreamAcquired"
    /\ pre' = Shown
    /\ UNCHANGED <<mounted, video, videoWidth, isAnalyzing, isRecording, recorderState,
                   analysisIntervalRef, isProcessingFrame, detectedFaces,
                   personCount, error, propsVer, effectPending, timers,
                   nextTimerId, liveCalls, invocations, ticks>>
    /\ UNCHANGED <<cameraError, attempts, cameraFailure>>
    /\ UNCHANGED recordingVars
    /\ UNCHANGED <<batchVars, rosterVars, displayVars>>

\* the element has loaded the stream's metadata: videoWidth is known and,
\* with autoPlay, playback starts (handleMetadataLoaded copies the size)
MetadataLoaded ==
    /\ mounted /\ stream /\ streamActive
    /\ videoWidth = 0
    /\ videoWidth' = FrameWidth
    /\ video' = "playing"
    /\ lastOp' = "MetadataLoaded"
    /\ pre' = Shown
    /\ UNCHANGED <<mounted, stream, streamActive, isAnalyzing, isRecording,
                   recorderState, analysisIntervalRef, isProcessingFrame,
                   detectedFaces, personCount, error, propsVer, effectPending,
                   timers, nextTimerId, liveCalls, invocations, ticks>>
    /\ UNCHANGED cameraVars
    /\ UNCHANGED recordingVars
    /\ UNCHANGED <<batchVars, rosterVars, displayVars>>

\* the media element pauses, resumes or ends (read at analyzeRealtimeFrame's guard)
VideoChange ==
    /\ mounted /\ stream /\ streamActive
    /\ videoWidth > 0
    /\ \E v \in {"playing", "paused", "ended"} :
         /\ v # video
         /\ video' = v
    /\ lastOp' = "VideoChange"
    /\ pre' = Shown
    /\ UNCHANGED <<mounted, stream, streamActive, videoWidth, isAnalyzing, isRecording, recorderState,
                   analysisIntervalRef, isProcessingFrame, detectedFaces,
                   personCount, error, propsVer, effectPending, timers,
                   nextTimerId, liveCalls, invocations, ticks>>
    /\ UNCHANGED cameraVars
    /\ UNCHANGED recordingVars
    /\ UNCHANGED <<batchVars, rosterVars, displayVars>>

\* a call in flight, marked when the user stops analysis: it was issued in
\* an armed period that has ended (the mark is the model's record; the code
\* keeps none)
StoppedSince(c) == [c EXCEPT !.stopped = TRUE]

ToggleClears_Never(wasAnalyzing) == FALSE

\* handleToggleAnalysis clears the display when analysis was on
ToggleClears(wasAnalyzing) == wasAnalyzing

\* the Analyze/Stop button: disabled={!stream || isRecording}
AnalyzeDisabled(s, recording) == ~s \/ recording

handleToggleAnalysis ==
    /\ mounted /\ ~AnalyzeDisabled(stream, isRecording)
    /\ effectPending = "none"
    /\ (~isAnalyzing => nextTimerId <= MaxTimers)
    /\ isAnalyzing' = ~isAnalyzing
    /\ IF ToggleClears(isAnalyzing)
         THEN /\ detectedFaces' = <<>>
              /\ personCount' = 0
         ELSE UNCHANGED <<detectedFaces, personCount>>
    /\ effectPending' = "update"
    /\ liveCalls' = IF isAnalyzing THEN {StoppedSince(c) : c \in liveCalls}
                                   ELSE liveCalls
    /\ lastOp' = IF isAnalyzing THEN "stop" ELSE "start"
    /\ pre' = Shown
    /\ UNCHANGED <<mounted, stream, video, isRecording, recorderState,
                   analysisIntervalRef, isProcessingFrame, error, propsVer,
                   timers, nextTimerId, invocations, ticks>>
    /\ UNCHANGED <<streamActive, videoWidth>>
    /\ UNCHANGED cameraVars
    /\ UNCHANGED recordingVars
    /\ UNCHANGED <<batchVars, rosterVars, displayVars>>

\* App re-renders (roster or settings change): knownPeople/options are new
\* objects, analyzeRealtimeFrame is re-created and the effect's deps change
PropsChange ==
    /\ mounted
    /\ effectPending = "none"
    /\ (isAnalyzing => nextTimerId <= MaxTimers)
    /\ \E v \in PropsVersions \ {propsVer} : propsVer' = v
    /\ effectPending' = "update"
    /\ lastOp' = "PropsChange"
    /\ pre' = Shown
    /\ UNCHANGED <<mounted, stream, video, isAnalyzing, isRecording,
                   recorderState, analysisIntervalRef, isProcessingFrame,
                   detectedFaces, personCount, error, timers, nextTimerId,
                   liveCalls, invocations, ticks>>
    /\ UNCHANGED <<streamActive, videoWidth>>
    /\ UNCHANGED cameraVars
    /\ UNCHANGED recordingVars
    /\ UNCHANGED <<batchVars, rosterVars, displayVars>>

\* the cleanup returned by the effect: clearInterval(ref) without resetting ref
EffectCleanup(ts, ref) ==
    IF ref # NoTimer THEN {t \in ts : t.id # ref} ELSE ts

\* the effect on [isAnalyzing, analyzeRealtimeFrame]: cleanup of the previous
\* run, then the body with the rendered isAnalyzing
AnalysisIntervalEffect ==
    /\ effectPending = "update"
    /\ LET cleaned == EffectCleanup(timers, analysisIntervalRef) IN
       IF isAnalyzing
         THEN /\ analysisIntervalRef' = nextTimerId
              /\ timers' = cleaned \cup {[id |-> nextTimerId, ver |-> propsVer]}
              /\ nextTimerId' = nextTimerId + 1
         ELSE /\ analysisIntervalRef' = NoTimer
              /\ timers' = cleaned
              /\ UNCHANGED nextTimerId
    /\ effectPending' = "none"
    /\ lastOp' = "AnalysisIntervalEffect"
    /\ pre' = Shown
    /\ UNCHANGED <<mounted, stream, video, isAnalyzing, isRecording,
                   recorderState, isProcessingFrame, detectedFaces,
                   personCount, error, propsVer, liveCalls, invocations,
                   ticks>>
    /\ UNCHANGED <<streamActive, videoWidth>>
    /\ UNCHANGED cameraVars
    /\ UNCHANGED recordingVars
    /\ UNCHANGED <<batchVars, rosterVars, displayVars>>

\* the user leaves the live tab: React detaches videoRef and schedules the
\* effect's cleanup
Unmount ==
    /\ mounted
    /\ effectPending = "none"
    /\ mounted' = FALSE
    /\ video' = "absent"
    /\ videoWidth' = 0
    /\ UNCHANGED streamActive
    /\ effectPending' = "unmount"
    /\ lastOp' = "Unmount"
    /\ pre' = Shown
    /\ UNCHANGED <<stream, isAnalyzing, isRecording, recorderState,
                   analysisIntervalRef, isProcessingFrame, detectedFaces,
                   personCount, error, propsVer, timers, nextTimerId,
                   liveCalls, invocations, ticks>>
    /\ UNCHANGED cameraVars
    /\ UNCHANGED recordingVars
    /\ UNCHANGED <<batchVars, rosterVars, displayVars>>

\* useCamera's cleanup: if (mediaStream) every track is stopped
CameraCleanup(acquired, active) == IF acquired THEN FALSE ELSE active

\* the cleanups of the unmounted component: the interval effect's and
\* useCamera's
UnmountCleanup ==
    /\ effectPending = "unmount"
    /\ timers' = EffectCleanup(timers, analysisIntervalRef)
    /\ streamActive' = CameraCleanup(mediaStream, streamActive)
    /\ UNCHANGED videoWidth
    /\ effectPending' = "none"
    /\ lastOp' = "UnmountCleanup"
    /\ pre' = Shown
    /\ UNCHANGED <<mounted, stream, video, isAnalyzing, isRecording,
                   recorderState, analysisIntervalRef, isProcessingFrame,
                   detectedFaces, personCount, error, propsVer, nextTimerId,
                   liveCalls, invocations, ticks>>
    /\ UNCHANGED cameraVars
    /\ UNCHANGED recordingVars
    /\ UNCHANGED <<batchVars, rosterVars, displayVars>>

GuardOnReturn_Set(processing) == TRUE

\* if (!frameDataUrl) return; comes before isProcessingFrame.current = true:
\* the guard is as it was
GuardOnReturn(processing) == processing

\* analyzeRealtimeFrame up to its await, called by interval t
analyzeRealtimeFrame(t) ==
    /\ ticks < MaxTicks
    /\ ticks' = ticks + 1
    /\ pre' = Shown
    /\ IF TickSkips(isProcessingFrame, video)
         THEN /\ lastOp' = IF isProcessingFrame THEN "tickBusy" ELSE "tickIdle"
              /\ UNCHANGED <<isProcessingFrame, liveCalls, invocations>>
         ELSE \E ctxOk \in BOOLEAN :
                IF captureFrame(video, ctxOk, videoWidth) = Null
                  THEN /\ lastOp' = "tickNoFrame"
                       /\ isProcessingFrame' = GuardOnReturn(isProcessingFrame)
                       /\ UNCHANGED <<liveCalls, invocations>>
                  ELSE /\ isProcessingFrame' = TRUE
                       /\ invocations' = invocations + 1
                       /\ liveCalls' = liveCalls \cup
                              {[id |-> invocations + 1, ver |-> t.ver,
                                stopped |-> FALSE]}
                       /\ lastOp' = "tickCall"
    /\ UNCHANGED <<mounted, stream, video, isAnalyzing, isRecording,
                   recorderState, analysisIntervalRef, detectedFaces,
                   personCount, error, propsVer, effectPending, timers,
                   nextTimerId>>
    /\ UNCHANGED <<streamActive, videoWidth>>
    /\ UNCHANGED cameraVars
    /\ UNCHANGED recordingVars
    /\ UNCHANGED <<batchVars, rosterVars, displayVars>>

Tick == \E t \in timers : analyzeRealtimeFrame(t)

\* "Only update if analysis is still active"
StillActive(ref) == ref # NoTimer

\* the continuation of the await: try / catch / finally
\* (a state setter of an unmounted component does nothing)
ResolveSuccess(c, r) ==
    /\ IF StillActive(analysisIntervalRef) /\ mounted
         THEN /\ detectedFaces' = r.faces
              /\ personCount' = r.personCount
         ELSE UNCHANGED <<detectedFaces, personCount>>
    /\ UNCHANGED error
    /\ lastOp' = "resolveOk"

ResolveFailure(c) ==
    /\ error' = IF mounted THEN AnalysisError ELSE error
    /\ UNCHANGED <<detectedFaces, personCount>>
    /\ lastOp' = "resolveFail"

ReleaseGuard_Kept == isProcessingFrame

\* finally { isProcessingFrame.current = false }
ReleaseGuard == FALSE

analyzeRealtimeFrameResolved(c) ==
    /\ \/ \E r \in Results : ResolveSuccess(c, r)
       \/ ResolveFailure(c)
    /\ isProcessingFrame' = ReleaseGuard
    /\ liveCalls' = liveCalls \ {c}
    /\ pre' = Shown
    /\ UNCHANGED <<mounted, stream, video, isAnalyzing, isRecording,
                   recorderState, analysisIntervalRef, propsVer,
                   effectPending, timers, nextTimerId, invocations, ticks>>
    /\ UNCHANGED <<streamActive, videoWidth>>
    /\ UNCHANGED cameraVars
    /\ UNCHANGED recordingVars
    /\ UNCHANGED <<batchVars, rosterVars, displayVars>>

Resolve == \E c \in liveCalls : analyzeRealtimeFrameResolved(c)

RecordDisabled_IgnoresAnalyzing(s, analyzing) == ~s

\* the Record/Stop button: disabled={!stream || isAnalyzing}
RecordDisabled(s, analyzing) == ~s \/ analyzing

\* a track of the camera stream ends (device unplugged, permission revoked):
\* the stream is inactive and the element showing it has ended; the stream
\* state of useCamera is only ever set when getUserMedia resolves
TrackEnded ==
    /\ mounted /\ stream /\ streamActive
    /\ streamActive' = FALSE
    /\ video' = "ended"
    /\ lastOp' = "TrackEnded"
    /\ pre' = Shown
    /\ UNCHANGED <<mounted, stream, videoWidth, isAnalyzing, isRecording,
                   recorderState, analysisIntervalRef, isProcessingFrame,
                   detectedFaces, personCount, error, propsVer, effectPending,
                   timers, nextTimerId, liveCalls, invocations, ticks>>
    /\ UNCHANGED cameraVars
    /\ UNCHANGED recordingVars
    /\ UNCHANGED <<batchVars, rosterVars, displayVars>>

\* ---- the recording: handleStartRecording, handleStopRecording and the
\* handlers they install on the recorder.  start() is called without a
\* timeslice: a recorder emits its data once, when it stops, and its
\* dataavailable and stop events are fired one after the other by one task.
MaxRecorders == 2
Recorders == 1..MaxRecorders
NoRecorder == 0
NoDownload == [recorder |-> NoRecorder]
DataSizes == {0, 1}

\* a recorder whose events are still to come is alive; the identity of any
\* other can be given to a new MediaRecorder
AliveRecorders ==
    stopping \cup (IF recorderState = "recording" THEN {currentRecorder} ELSE {})
NewRecorder == CHOOSE r \in Recorders \ AliveRecorders :
                   \A q \in Recorders \ AliveRecorders : r <= q

\* ondataavailable: if (event.data.size > 0) push
ondataavailable(chunks, data) ==
    IF data.size > 0 THEN Append(chunks, data) ELSE chunks

\* onstop, line 152: recordedChunksRef.current = []
ChunksAfterStop_Kept(chunks) == chunks

ChunksAfterStop(chunks) == <<>>

\* a MediaRecorder whose stream has become inactive stops by itself: its
\* state is "inactive" and its events are queued
RecorderStopsOnInactive ==
    /\ recorderState = "recording" /\ ~streamActive
    /\ recorderState' = "inactive"
    /\ stopping' = stopping \cup {currentRecorder}
    /\ lastOp' = "RecorderStopsOnInactive"
    /\ pre' = Shown
    /\ UNCHANGED <<mounted, stream, video, isAnalyzing, isRecording,
                   analysisIntervalRef, isProcessingFrame, detectedFaces,
                   personCount, error, propsVer, effectPending, timers,
                   nextTimerId, liveCalls, invocations, ticks>>
    /\ UNCHANGED <<streamActive, videoWidth>>
    /\ UNCHANGED cameraVars
    /\ UNCHANGED <<currentRecorder, recordedChunksRef, download>>
    /\ UNCHANGED <<batchVars, rosterVars, displayVars>>

\* the Record button while ~isRecording; start() on a stream without a live
\* track throws (after the ref has been replaced, before setIsRecording)
handleStartRecording ==
    /\ mounted /\ ~RecordDisabled(stream, isAnalyzing) /\ ~isRecording
    /\ Recorders \ AliveRecorders # {}
    /\ recordedChunksRef' = <<>>
    /\ currentRecorder' = NewRecorder
    /\ \/ /\ recorderState' = "recording"
          /\ isRecording' = TRUE
       \/ /\ ~streamActive
          /\ recorderState' = "inactive"
          /\ UNCHANGED isRecording
    /\ lastOp' = "startRecording"
    /\ pre' = Shown
    /\ UNCHANGED <<mounted, stream, video, isAnalyzing, analysisIntervalRef,
                   isProcessingFrame, detectedFaces, personCount, error,
                   propsVer, effectPending, timers, nextTimerId, liveCalls,
                   invocations, ticks>>
    /\ UNCHANGED <<streamActive, videoWidth>>
    /\ UNCHANGED cameraVars
    /\ UNCHANGED <<stopping, download>>
    /\ UNCHANGED <<batchVars, rosterVars, displayVars>>

\* the same button while isRecording
handleStopRecording ==
    /\ mounted /\ ~RecordDisabled(stream, isAnalyzing) /\ isRecording
    /\ IF recorderState = "recording"
         THEN /\ recorderState' = "inactive"
              /\ stopping' = stopping \cup {currentRecorder}
              /\ isRecording' = FALSE
         ELSE UNCHANGED <<recorderState, stopping, isRecording>>
    /\ lastOp' = "stopRecording"
    /\ pre' = Shown
    /\ UNCHANGED <<mounted, stream, video, isAnalyzing, analysisIntervalRef,
                   isProcessingFrame, detectedFaces, personCount, error,
                   propsVer, effectPending, timers, nextTimerId, liveCalls,
                   invocations, ticks>>
    /\ UNCHANGED <<streamActive, videoWidth>>
    /\ UNCHANGED cameraVars
    /\ UNCHANGED <<currentRecorder, recordedChunksRef, download>>
    /\ UNCHANGED <<batchVars, rosterVars, displayVars>>

\* the task a stopped recorder has queued: its dataavailable event with the
\* data of the whole recording, then its stop event.  Both handlers use the
\* refs of the component, whatever recorder they were installed on.
onstop ==
    /\ \E r \in stopping : \E size \in DataSizes :
         LET data == [recorder |-> r, size |-> size]
             chunks == ondataavailable(recordedChunksRef, data)
         IN /\ download' = [recorder |-> r, data |-> data, file |-> chunks]
            /\ recordedChunksRef' = ChunksAfterStop(chunks)
            /\ stopping' = stopping \ {r}
    /\ lastOp' = "onstop"
    /\ pre' = Shown
    /\ UNCHANGED <<mounted, stream, video, isAnalyzing, isRecording,
                   recorderState, analysisIntervalRef, isProcessingFrame,
                   detectedFaces, personCount, error, propsVer, effectPending,
                   timers, nextTimerId, liveCalls, invocations, ticks>>
    /\ UNCHANGED <<streamActive, videoWidth>>
    /\ UNCHANGED cameraVars
    /\ UNCHANGED currentRecorder
    /\ UNCHANGED <<batchVars, rosterVars, displayVars>>

\* =================================================================
\* PhotoAnalyzer and VideoAnalyzer: one analysis at the user's request
\* =================================================================
Views == {"photo", "video"}
MaxSelections == 2   \* files selected in one analyzer
NoFile == 0          \* imageFile / videoFile === null
\* (countOf is the model's record of the file whose analysis gave personCount)
NoShot == [file |-> NoFile, detectedFaces |-> <<>>, personCount |-> 0,
           countOf |-> NoFile, isLoading |-> FALSE, error |-> Null]
ContextError == "Could not get canvas context."

\* the collaborator's answers for a medium: nobody in it, or one face that
\* was found in this medium
ShotResults(medium) ==
    {[faces |-> <<>>, personCount |-> 0],
     [faces |-> <<[seenIn |-> medium]>>, personCount |-> 1]}

\* what an analyzer's step leaves alone
ShotFrame ==
    UNCHANGED <<liveVars, batchVars, rosterVars, pre, selectedImageId, scale,
                clientSize, effectDims, displayRan, faces>>

\* handleFileChange of either analyzer: the display is cleared and the file
\* replaced (isLoading is not touched); a File the user selects is a new one
FileChange(v) ==
    /\ selections[v] < MaxSelections
    /\ selections' = [selections EXCEPT ![v] = @ + 1]
    /\ shot' = [shot EXCEPT ![v].detectedFaces = <<>>,
                            ![v].personCount = 0,
                            ![v].countOf = NoFile,
                            ![v].error = Null,
                            ![v].file = selections[v] + 1]
    /\ UNCHANGED shotCalls
    /\ lastOp' = "FileChange"
    /\ ShotFrame

\* the Analyze button: disabled={!imageFile || isLoading}
AnalyzeDisabledShot(s) == s.file = NoFile \/ s.isLoading

\* PhotoAnalyzer.handleAnalyze up to its await
handleAnalyze ==
    /\ ~AnalyzeDisabledShot(shot["photo"])
    /\ shot' = [shot EXCEPT !["photo"].isLoading = TRUE,
                            !["photo"].error = Null,
                            !["photo"].detectedFaces = <<>>]
    /\ shotCalls' = shotCalls \cup {[view |-> "photo", of |-> shot["photo"].file]}
    /\ UNCHANGED selections
    /\ lastOp' = "handleAnalyze"
    /\ ShotFrame

\* VideoAnalyzer.handleAnalyzeFrame up to its await: the frame is drawn from
\* the video element, which plays the selected file; without a 2d context
\* it gives up
handleAnalyzeFrame ==
    /\ ~AnalyzeDisabledShot(shot["video"])
    /\ \E ctxOk \in BOOLEAN :
         IF ctxOk
           THEN /\ shot' = [shot EXCEPT !["video"].isLoading = TRUE,
                                        !["video"].error = Null,
                                        !["video"].detectedFaces = <<>>]
                /\ shotCalls' = shotCalls \cup
                       {[view |-> "video", of |-> shot["video"].file]}
           ELSE /\ shot' = [shot EXCEPT !["video"].isLoading = FALSE,
                                        !["video"].error = ContextError,
                                        !["video"].detectedFaces = <<>>]
                /\ UNCHANGED shotCalls
    /\ UNCHANGED selections
    /\ lastOp' = "handleAnalyzeFrame"
    /\ ShotFrame

\* the continuation of the await in either analyzer: try / catch / finally
AnalyzeResolved(c) ==
    /\ \/ \E r \in ShotResults(c.of) :
            /\ shot' = [shot EXCEPT ![c.view].detectedFaces = r.faces,
                                    ![c.view].personCount = r.personCount,
                                    ![c.view].countOf = c.of,
                                    ![c.view].isLoading = FALSE]
            /\ lastOp' = "shotOk"
       \/ /\ shot' = [shot EXCEPT ![c.view].error = AnalysisError,
                                   ![c.view].isLoading = FALSE]
          /\ lastOp' = "shotFail"
    /\ shotCalls' = shotCalls \ {c}
    /\ UNCHANGED selections
    /\ ShotFrame

SelectFile == \E v \in Views : FileChange(v)

ShotResolve == \E c \in shotCalls : AnalyzeResolved(c)

NextShot ==
    \/ SelectFile
    \/ handleAnalyze
    \/ handleAnalyzeFrame
    \/ ShotResolve

\* =================================================================
\* Initial state and the specification of the live view
\* =================================================================
InitWith(persisted) ==
    /\ mounted = TRUE
    /\ stream = FALSE
    /\ streamActive = FALSE
    /\ videoWidth = 0
    /\ cameraError = Null
    /\ attempts = 0
    /\ cameraFailure = "none"
    /\ mediaStream = FALSE
    /\ video = "paused"
    /\ isAnalyzing = FALSE
    /\ isRecording = FALSE
    /\ recorderState = Null
    /\ currentRecorder = NoRecorder
    /\ stopping = {}
    /\ recordedChunksRef = <<>>
    /\ download = NoDownload
    /\ shot = [v \in Views |-> NoShot]
    /\ shotCalls = {}
    /\ selections = [v \in Views |-> 0]
    /\ analysisIntervalRef = NoTimer
    /\ isProcessingFrame = FALSE
    /\ detectedFaces = <<>>
    /\ personCount = 0
    /\ error = Null
    /\ propsVer = 1
    /\ effectPending = "none"
    /\ timers = {}
    /\ nextTimerId = 1
    /\ liveCalls = {}
    /\ invocations = 0
    /\ ticks = 0
    /\ imageFiles = <<>>
    /\ isBatchLoading = FALSE
    /\ queue = <<>>
    /\ worker = [w \in 1..CONCURRENCY_LIMIT |-> "finished"]
    /\ batchCalls = {}
    /\ runActive = FALSE
    /\ startStatus = [k \in {} |-> Null]
    /\ submitted = [k \in {} |-> 0]
    /\ snapshot = Null
    /\ isRegistering = FALSE
    /\ knownPeople = [t |-> "array", ref |-> 1]
    /\ arrays = (1 :> <<>>)
    /\ storage = persisted
    /\ loaded = FALSE
    /\ appCrashed = FALSE
    /\ rosterCalls = {}
    /\ rendered = [t |-> "array", ref |-> 1]
    /\ stale = FALSE
    /\ selectedImageId = 0
    /\ scale = FromInt(1)
    /\ clientSize = [width |-> 800, height |-> 600]
    /\ effectDims = NoSize
    /\ displayRan = FALSE
    /\ faces = <<>>
    /\ lastOp = "init"
    /\ pre = [faces |-> <<>>, personCount |-> 0, error |-> Null]

\* a first visit: nothing is stored
Init == InitWith(Absent)

NextLive ==
    \/ getCameraStream
    \/ AcquisitionFailed
    \/ StreamAcquired
    \/ MetadataLoaded
    \/ VideoChange
    \/ handleToggleAnalysis
    \/ PropsChange
    \/ AnalysisIntervalEffect
    \/ Unmount
    \/ UnmountCleanup
    \/ Tick
    \/ Resolve
    \/ stopping = {} /\ handleStartRecording
    \/ handleStopRecording
    \/ TrackEnded
    \/ RecorderStopsOnInactive
    \/ onstop

SpecLive == Init /\ [][NextLive]_vars

\* the recording controller by itself: recordings are started while the
\* events of earlier recorders are still queued (in NextLive a recording
\* starts once they have been delivered)
NextRecording ==
    \/ getCameraStream
    \/ StreamAcquired
    \/ MetadataLoaded
    \/ handleStartRecording
    \/ handleStopRecording
    \/ TrackEnded
    \/ RecorderStopsOnInactive
    \/ onstop
    \/ Unmount
    \/ UnmountCleanup

SpecRecording == Init /\ [][NextRecording]_vars

\* the media recorder delivers its stop, React runs the effects it has
\* scheduled, and a user who sees a Stop button presses it
SpecLiveFair ==
    /\ SpecLive
    /\ WF_vars(RecorderStopsOnInactive)
    /\ WF_vars(AnalysisIntervalEffect)
    /\ WF_vars(UnmountCleanup)
    /\ WF_vars(handleStopRecording)


\* =================================================================
\* BatchAnalyzer: the batch pipeline
\* =================================================================
\* an item is the i-th file of a selection: id is `${file.name}-${file.lastModified}`
\* (the same for the same file picked again), file is the File object
NoResult == [of |-> <<>>]          \* result: null

NewFileState(i, sel) ==
    [id |-> i, file |-> sel, status |-> "pending", result |-> NoResult,
     naturalSize |-> NoSize]

Key(f) == <<f.id, f.file>>
Range(q) == {q[i] : i \in DOMAIN q}

\* ---- MediaDisplay under BatchAnalyzer (one instance, mounted while an item
\* is selected; it is not keyed, so its state survives a change of the item)
ClientSizes == {[width |-> 800, height |-> 600], [width |-> 440, height |-> 330]}
NaturalSizes == {[width |-> 1600, height |-> 900], [width |-> 600, height |-> 800]}

\* imageFiles.find(f => f.id === selectedImageId) exists
DisplayMounted ==
    \E i \in DOMAIN imageFiles : imageFiles[i].id = selectedImageId

\* naturalWidth/naturalHeight passed to MediaDisplay
CurrentDims ==
    IF DisplayMounted
      THEN imageFiles[CHOOSE i \in DOMAIN imageFiles :
                          imageFiles[i].id = selectedImageId].naturalSize
      ELSE NoSize

\* the effect on [naturalWidth, naturalHeight] is due: after the mount, and
\* after a render with other dimensions
DisplayEffectPending ==
    DisplayMounted /\ (~displayRan \/ effectDims # CurrentDims)

\* Math.min(scaleX, scaleY) of scaleX = clientWidth / naturalWidth and
\* scaleY = clientHeight / naturalHeight
MinScale(client, nat) ==
    LET scaleX == Divide(client.width, nat.width)
        scaleY == Divide(client.height, nat.height)
    IN MathMin(scaleX, scaleY)

\* calculateScale: setScale only with known dimensions, else scale is kept
calculateScale(client, nat, sc) ==
    IF nat.width > 0 /\ nat.height > 0 THEN MinScale(client, nat) ELSE sc

\* const scaledWidth = naturalWidth * scale; const scaledHeight = ...
scaledWidth == Times(CurrentDims.width, scale)
scaledHeight == Times(CurrentDims.height, scale)

\* the File objects of a selection are new objects: they differ from every
\* File the last run still refers to
FreshFile ==
    CHOOSE n \in 1..2 : \A k \in DOMAIN submitted : k[2] # n

\* handleFileChange: the list is replaced by the newly selected files
\* (the img.onload callbacks it registers only rewrite naturalSize)
handleFileChange ==
    /\ ~DisplayEffectPending
    /\ \E n \in 1..MaxItems :
         imageFiles' = [i \in 1..n |-> NewFileState(i, FreshFile)]
    /\ selectedImageId' = imageFiles'[1].id
    /\ faces' = <<>>
    /\ lastOp' = "handleFileChange"
    /\ UNCHANGED <<isBatchLoading, queue, worker, batchCalls, runActive,
                   startStatus, submitted>>
    /\ UNCHANGED <<scale, clientSize, effectDims, displayRan>>
    /\ UNCHANGED <<liveVars, pre, rosterVars>>
    /\ UNCHANGED shotVars

\* setImageFiles(prev => prev.map(f => f.id === id ? {...f, status} : f))
SetStatus(files, id, st) ==
    [i \in DOMAIN files |->
        IF files[i].id = id THEN [files[i] EXCEPT !.status = st] ELSE files[i]]

SetDone_ResetsSize(files, id, r) ==
    [i \in DOMAIN files |->
        IF files[i].id = id
          THEN [files[i] EXCEPT !.status = "done", !.result = r,
                                !.naturalSize = NoSize]
          ELSE files[i]]

\* setImageFiles(prev => prev.map(f => f.id === id ? {...f, status: 'done', result} : f))
SetDone(files, id, r) ==
    [i \in DOMAIN files |->
        IF files[i].id = id
          THEN [files[i] EXCEPT !.status = "done", !.result = r]
          ELSE files[i]]

FilesToProcess_NotDoneCheck(files) ==
    SelectSeq(files, LAMBDA f : f.status # "processing")

\* imageFiles.filter(f => f.status === 'pending' || f.status === 'error')
FilesToProcess(files) ==
    SelectSeq(files, LAMBDA f : f.status \in {"pending", "error"})

Shift_Peek(q) == q

\* queue.shift(): the queue after its head was taken
Shift(q) == Tail(q)

\* one turn of a worker's loop, from `while (queue.length > 0)` to process's
\* await; st is [files, q, calls, wk, sub]
WorkerTurn(st, w) ==
    IF st.q = <<>>
      THEN [st EXCEPT !.wk[w] = "finished"]
      ELSE LET x == Head(st.q) IN
           [files |-> SetStatus(st.files, x.id, "processing"),
            q     |-> Shift(st.q),
            calls |-> st.calls \cup {[w |-> w, id |-> x.id, file |-> x.file]},
            wk    |-> [st.wk EXCEPT ![w] = "awaiting"],
            sub   |-> [st.sub EXCEPT ![Key(x)] = @ + 1]]

RECURSIVE StartWorkers(_, _)

PoolSize_Four == CONCURRENCY_LIMIT + 1

PoolSize_One == CONCURRENCY_LIMIT - 2

\* Array(CONCURRENCY_LIMIT)
PoolSize == CONCURRENCY_LIMIT

\* Array(CONCURRENCY_LIMIT).fill(null).map(async () => ...): the workers run
\* one after the other, each up to its first await
StartWorkers(st, w) ==
    IF w > PoolSize THEN st
    ELSE StartWorkers(WorkerTurn(st, w), w + 1)

AllFinished_Any(wk) == \E w \in DOMAIN wk : wk[w] = "finished"

\* await Promise.all(workers) returns once every worker has returned
AllFinished(wk) == \A w \in DOMAIN wk : wk[w] = "finished"

\* the tail common to the steps of a run: the new state of the run, and
\* setIsBatchLoading(false) after Promise.all when that was the last worker
Commit(st, op) ==
    /\ imageFiles' = st.files
    /\ queue' = st.q
    /\ batchCalls' = st.calls
    /\ worker' = st.wk
    /\ submitted' = st.sub
    /\ isBatchLoading' = ~AllFinished(st.wk)
    /\ runActive' = ~AllFinished(st.wk)
    /\ lastOp' = IF AllFinished(st.wk) THEN "batchJoin" ELSE op

\* the Process Batch button (disabled={isBatchLoading})
handleAnalyzeBatch ==
    /\ imageFiles # <<>>
    /\ ~isBatchLoading
    /\ ~DisplayEffectPending
    /\ LET st0 == [files |-> imageFiles,
                   q     |-> FilesToProcess(imageFiles),
                   calls |-> batchCalls,
                   wk    |-> [w \in 1..PoolSize |-> "idle"],
                   sub   |-> [k \in {Key(f) : f \in Range(imageFiles)} |-> 0]]
       IN Commit(StartWorkers(st0, 1), "handleAnalyzeBatch")
    /\ startStatus' = [k \in {Key(f) : f \in Range(imageFiles)} |->
                         (CHOOSE f \in Range(imageFiles) : Key(f) = k).status]
    /\ UNCHANGED <<liveVars, pre, rosterVars, displayVars>>

\* the collaborator's answer to detectAndRecognizeFaces(fileState.file, ...):
\* a RecognitionResult for the File it was given
ResultFor(c) == [of |-> <<c.id, c.file>>]

AfterProcess_Unwind(ok) == IF ok THEN "resume" ELSE "finished"

\* process catches the failure, so `await process(...)` always returns and
\* the worker's loop goes on
AfterProcess(ok) == "resume"

\* process after its await (done with the result, or error), then the
\* worker's loop
Resumed(st, c, ok) ==
    LET st1 == [st EXCEPT !.calls = @ \ {c}, !.wk[c.w] = AfterProcess(ok)]
    IN IF st1.wk[c.w] = "resume" THEN WorkerTurn(st1, c.w) ELSE st1

WorkerResolve(c) ==
    /\ LET st == [files |-> imageFiles, q |-> queue, calls |-> batchCalls,
                  wk |-> worker, sub |-> submitted]
       IN \/ Commit(Resumed([st EXCEPT !.files =
                                  SetDone(@, c.id, ResultFor(c))],
                            c, TRUE), "batchDone")
          \/ Commit(Resumed([st EXCEPT !.files = SetStatus(@, c.id, "error")],
                            c, FALSE), "batchError")
    /\ UNCHANGED startStatus
    /\ UNCHANGED <<liveVars, pre, rosterVars, displayVars>>

BatchResolve == \E c \in batchCalls : WorkerResolve(c)

\* MediaDisplay's effect: calculateScale() with the rendered dimensions, and
\* the resize listener is replaced by that calculateScale
ScaleEffect ==
    /\ DisplayEffectPending
    /\ scale' = calculateScale(clientSize, CurrentDims, scale)
    /\ effectDims' = CurrentDims
    /\ displayRan' = TRUE
    /\ lastOp' = "ScaleEffect"
    /\ UNCHANGED <<selectedImageId, clientSize, faces>>
    /\ UNCHANGED <<liveVars, batchVars, rosterVars, pre>>
    /\ UNCHANGED shotVars

NextBatch ==
    \/ handleFileChange
    \/ handleAnalyzeBatch
    \/ BatchResolve
    \/ ScaleEffect

SpecBatch == Init /\ [][NextBatch]_vars

\* a run with a collaborator call that never resolves: the call for the
\* second file of a selection is the one that hangs, every other call
\* resolves in the end
Hung(c) == c.id = 2

BatchResolveOthers == \E c \in batchCalls : ~Hung(c) /\ WorkerResolve(c)

NextBatchHung ==
    \/ handleFileChange
    \/ handleAnalyzeBatch
    \/ BatchResolveOthers
    \/ ScaleEffect

SpecBatchHung ==
    Init /\ [][NextBatchHung]_vars /\ WF_vars(BatchResolveOthers)

\* img.onload of an item: its naturalSize is set, by id (sizes: the sizes
\* the images may have)
ImageLoadedAs(sizes) ==
    /\ \E i \in DOMAIN imageFiles, sz \in sizes :
         /\ imageFiles[i].naturalSize = NoSize
         /\ imageFiles' = [k \in DOMAIN imageFiles |->
                IF imageFiles[k].id = imageFiles[i].id
                  THEN [imageFiles[k] EXCEPT !.naturalSize = sz]
                  ELSE imageFiles[k]]
    /\ lastOp' = "ImageLoaded"
    /\ UNCHANGED <<isBatchLoading, queue, worker, batchCalls, runActive,
                   startStatus, submitted>>
    /\ UNCHANGED <<liveVars, rosterVars, displayVars, pre>>

ImageLoaded == ImageLoadedAs(NaturalSizes)

\* a run with the images of its selection loading meanwhile (one selection,
\* of images of one size)
LandscapeLoaded ==
    ImageLoadedAs({sz \in NaturalSizes : sz.width > sz.height})

NextBatchLoad ==
    \/ imageFiles = <<>> /\ handleFileChange
    \/ handleAnalyzeBatch
    \/ BatchResolve
    \/ LandscapeLoaded
    \/ ScaleEffect

SpecBatchLoad == Init /\ [][NextBatchLoad]_vars

\* a click on an item of the Image Queue: setSelectedImageId(f.id)
SelectImage ==
    /\ ~DisplayEffectPending
    /\ \E i \in DOMAIN imageFiles :
         /\ imageFiles[i].id # selectedImageId
         /\ selectedImageId' = imageFiles[i].id
    /\ faces' = <<>>
    /\ lastOp' = "SelectImage"
    /\ UNCHANGED <<scale, clientSize, effectDims, displayRan>>
    /\ UNCHANGED <<liveVars, batchVars, rosterVars, pre>>
    /\ UNCHANGED shotVars

\* the window is resized: the listener registered by the last effect runs,
\* with the dimensions of that render
Resize ==
    /\ DisplayMounted
    /\ \E c \in ClientSizes \ {clientSize} :
         /\ clientSize' = c
         /\ scale' = IF displayRan THEN calculateScale(c, effectDims, scale)
                                   ELSE scale
    /\ lastOp' = "Resize"
    /\ UNCHANGED <<selectedImageId, effectDims, displayRan, faces>>
    /\ UNCHANGED <<liveVars, batchVars, rosterVars, pre>>
    /\ UNCHANGED shotVars

\* face.box: x, y, width and height are fractions of the media, here in
\* quarters (0, 1/4, ..., 1), each between 0 and 1
Quarters == 0..4
Boxes ==
    {[x |-> 0, y |-> 0, width |-> 4, height |-> 4],
     [x |-> 1, y |-> 1, width |-> 2, height |-> 2],
     [x |-> 3, y |-> 1, width |-> 2, height |-> 2]}

\* `${x * 100}%` for x = q / 4: a percentage of the overlay's size
Percent(q) == 25 * q

\* the style of a face's frame (left, top, width, height): percentages of the
\* overlay, which is scaledWidth wide and scaledHeight high
FaceRect(box) ==
    [left |-> Percent(box.x), top |-> Percent(box.y),
     width |-> Percent(box.width), height |-> Percent(box.height)]

\* the result of the selected item arrives: MediaDisplay is rendered with
\* its faces
FacesShown ==
    /\ DisplayMounted
    /\ faces = <<>>
    /\ \E b \in Boxes : faces' = <<b>>
    /\ lastOp' = "FacesShown"
    /\ UNCHANGED <<selectedImageId, scale, clientSize, effectDims, displayRan>>
    /\ UNCHANGED <<liveVars, batchVars, rosterVars, pre>>
    /\ UNCHANGED shotVars

NextDisplay ==
    \/ handleFileChange
    \/ ImageLoaded
    \/ SelectImage
    \/ ScaleEffect
    \/ Resize
    \/ FacesShown

SpecDisplay == Init /\ [][NextDisplay]_vars

SpecShot == Init /\ [][NextShot]_vars

\* =================================================================
\* App: the roster of known people, and CameraView's registration dialog
\* =================================================================
Names == {"Alice"}                 \* newPersonName.trim(), not empty
ClockReadings == 1..2              \* Date.now(): the wall clock may repeat

\* `person_${Date.now()}`
PersonId(now) == <<"person_1", "person_2", "person_3", "person_4">>[now]

\* what localStorage may hold when the app starts: rosters saved by earlier
\* sessions (at other clock readings), and other texts
SavedRosters ==
    {<<>>,
     <<Person(PersonId(3), "Alice", "data:image/jpeg")>>,
     <<Person(PersonId(3), "Alice", "data:image/jpeg"),
       Person(PersonId(4), "Bob", "data:image/jpeg")>>}
PersistedValues ==
    {Absent,
     Stored(<<>>),
     Stored(<<Tok("["), Tok("{")>>),
     Stored(<<Tok("["), Tok("{"), KeyTok("id"), StrTok(PersonId(3)), Tok(",")>>),
     Stored(<<Tok("null")>>),
     Stored(<<NumTok("7")>>),
     Stored(<<Tok("{"), Tok("}")>>),
     Stored(<<Tok("["), Tok("null"), Tok("]")>>),
     Stored(<<Tok("["), NumTok("7"), Tok("]")>>)}
    \cup {Stored(JSONstringify(r)) : r \in SavedRosters}

IsArray(v) == v.t = "array"
\* the contents of the array knownPeople refers to
Roster == arrays[knownPeople.ref]

\* person.id of an element (undefined for a number or {})
IdOf(v) == IF v.t = "person" THEN v.id ELSE "undefined"

\* KnownFacesPanel: people.length and people.map(person => ... person.id ...)
\* throw for null, for a value without map, and for a null element
RenderThrows(v, items) ==
    \/ ~IsArray(v)
    \/ \E i \in DOMAIN items : items[i].t = "null"

\* the contents of the array the handlers of the last render refer to
RenderedRoster == arrays[rendered.ref]

\* React renders App with the new state before the next event is handled;
\* only roster operations and continuations of awaits are taken to run
\* while that render is still due
RenderCurrent == rendered = knownPeople
\* (at most two roster operations are taken from one render)

FreshRef(heap) ==
    CHOOSE r \in 1..4 : r \notin DOMAIN heap

\* the arrays still referenced by the state, by the handlers of the last
\* render or by a call in flight
Referenced(heap, kp, rd, calls) ==
    LET live == (IF IsArray(kp) THEN {kp.ref} ELSE {})
                  \cup (IF IsArray(rd) THEN {rd.ref} ELSE {})
                  \cup {c.ref : c \in calls}
    IN [r \in (DOMAIN heap) \cap live |-> heap[r]]

CopyAppend_Push(heap, r, p) ==
    [ref |-> r, heap |-> [heap EXCEPT ![r] = Append(@, p)]]

\* [...knownPeople, newPerson]: a new array
CopyAppend(heap, r, p) ==
    [ref |-> FreshRef(heap), heap |-> heap @@ (FreshRef(heap) :> Append(heap[r], p))]

\* knownPeople.filter(p => p.id !== id): a new array
Filter(heap, r, id) ==
    [ref |-> FreshRef(heap),
     heap |-> heap @@ (FreshRef(heap) :>
                          SelectSeq(heap[r], LAMBDA p : IdOf(p) # id))]

updateKnownPeople_NoSave(x) ==
    /\ knownPeople' = [t |-> "array", ref |-> x.ref]
    /\ arrays' = Referenced(x.heap, knownPeople', rendered, rosterCalls)
    /\ UNCHANGED storage

\* updateKnownPeople(people): setKnownPeople, then localStorage.setItem
updateKnownPeople(x) ==
    /\ knownPeople' = [t |-> "array", ref |-> x.ref]
    /\ arrays' = Referenced(x.heap, knownPeople', rendered, rosterCalls)
    /\ storage' = Stored(JSONstringify(x.heap[x.ref]))

\* the effect of App's first render
LoadEffect ==
    /\ ~loaded /\ ~appCrashed
    /\ loaded' = TRUE
    /\ LET storedPeople == storage IN
       IF ~storedPeople.present \/ storedPeople.text = <<>>
         THEN UNCHANGED <<knownPeople, arrays, appCrashed>>
         ELSE LET r == JSONparse(storedPeople.text) IN
              IF ~r.ok
                THEN UNCHANGED <<knownPeople, arrays, appCrashed>>
                ELSE IF IsArray(r.v)
                  THEN /\ knownPeople' = [t |-> "array", ref |-> FreshRef(arrays)]
                       /\ arrays' = Referenced(arrays @@ (FreshRef(arrays) :> r.v.items),
                                                knownPeople', knownPeople', rosterCalls)
                       /\ appCrashed' = RenderThrows(r.v, r.v.items)
                  ELSE /\ knownPeople' = r.v
                       /\ arrays' = Referenced(arrays, r.v, r.v, rosterCalls)
                       /\ appCrashed' = RenderThrows(r.v, <<>>)
    /\ rendered' = knownPeople'
    /\ lastOp' = "LoadEffect"
    /\ UNCHANGED <<storage, rosterCalls, snapshot, isRegistering, stale>>
    /\ UNCHANGED <<liveVars, batchVars, displayVars, pre>>

\* addPerson(name, image) with Date.now() = now
addPerson(name, image, now) ==
    /\ Len(RenderedRoster) < MaxPeople
    /\ RenderCurrent \/ ~stale
    /\ LET newPerson == Person(PersonId(now), name, image)
       IN updateKnownPeople(CopyAppend(arrays, rendered.ref, newPerson))
    /\ stale' = (rendered # knownPeople)
    /\ lastOp' = "addPerson"

\* the trash button of an entry of KnownFacesPanel
removePerson ==
    /\ loaded /\ ~appCrashed
    /\ RenderCurrent \/ ~stale
    /\ \E i \in DOMAIN RenderedRoster :
         LET id == IdOf(RenderedRoster[i]) IN
         updateKnownPeople(Filter(arrays, rendered.ref, id))
    /\ stale' = (rendered # knownPeople)
    /\ lastOp' = "removePerson"
    /\ UNCHANGED <<loaded, appCrashed, rosterCalls, snapshot, isRegistering,
                   rendered>>
    /\ UNCHANGED <<liveVars, batchVars, displayVars, pre>>

\* the Register button: disabled={!stream || isAnalyzing || isRecording}
RegisterDisabled(s, analyzing, recording) == ~s \/ analyzing \/ recording

\* handleRegisterClick: a frame that is not falsy opens the dialog
handleRegisterClick ==
    /\ mounted /\ loaded /\ ~appCrashed
    /\ RenderCurrent
    /\ ~RegisterDisabled(stream, isAnalyzing, isRecording)
    /\ \E ctxOk \in BOOLEAN :
         LET frame == captureFrame(video, ctxOk, videoWidth) IN
         IF frame # Null
           THEN /\ snapshot' = frame
                /\ isRegistering' = TRUE
                /\ lastOp' = "registerFrame"
           ELSE /\ UNCHANGED <<snapshot, isRegistering>>
                /\ lastOp' = "registerNoFrame"
    /\ UNCHANGED <<knownPeople, arrays, storage, loaded, appCrashed,
                   rosterCalls, rendered, stale>>
    /\ UNCHANGED <<liveVars, batchVars, displayVars, pre>>

\* the dialog's Cancel button
CancelRegistration ==
    /\ mounted /\ isRegistering /\ ~appCrashed
    /\ RenderCurrent
    /\ isRegistering' = FALSE
    /\ lastOp' = "CancelRegistration"
    /\ UNCHANGED <<snapshot, knownPeople, arrays, storage, loaded, appCrashed,
                   rosterCalls, rendered, stale>>
    /\ UNCHANGED <<liveVars, batchVars, displayVars, pre>>

\* the dialog's Save button (disabled={!newPersonName.trim()})
handleConfirmRegistration ==
    /\ mounted /\ isRegistering /\ ~appCrashed
    /\ snapshot # Null
    /\ \E name \in Names, now \in ClockReadings :
         addPerson(name, snapshot, now)
    /\ isRegistering' = FALSE
    /\ snapshot' = Null
    /\ UNCHANGED <<loaded, appCrashed, rosterCalls, rendered>>
    /\ UNCHANGED <<liveVars, batchVars, displayVars, pre>>

\* an analysis surface calls detectAndRecognizeFaces(image, knownPeople, options)
GalleryCallIssued ==
    /\ loaded /\ ~appCrashed
    /\ RenderCurrent
    /\ rosterCalls = {}
    /\ rosterCalls' = {[ref |-> rendered.ref, seen |-> RenderedRoster]}
    /\ lastOp' = "GalleryCallIssued"
    /\ UNCHANGED <<snapshot, isRegistering, knownPeople, arrays, storage,
                   loaded, appCrashed, rendered, stale>>
    /\ UNCHANGED <<liveVars, batchVars, displayVars, pre>>

\* the call has built its request from knownPeople (part_003:87-90) and is over
GalleryCallResolved ==
    /\ \E c \in rosterCalls :
         /\ rosterCalls' = rosterCalls \ {c}
         /\ arrays' = Referenced(arrays, knownPeople, rendered, rosterCalls')
    /\ lastOp' = "GalleryCallResolved"
    /\ UNCHANGED <<snapshot, isRegistering, knownPeople, storage, loaded,
                   appCrashed, rendered, stale>>
    /\ UNCHANGED <<liveVars, batchVars, displayVars, pre>>

\* App renders with the state the roster operations have set: its
\* handlers and the props of its children refer to the new array
RenderApp ==
    /\ loaded /\ ~appCrashed
    /\ rendered # knownPeople
    /\ rendered' = knownPeople
    /\ arrays' = Referenced(arrays, knownPeople, knownPeople, rosterCalls)
    /\ lastOp' = "RenderApp"
    /\ UNCHANGED <<snapshot, isRegistering, knownPeople, storage, loaded,
                   appCrashed, rosterCalls, stale>>
    /\ UNCHANGED <<liveVars, batchVars, displayVars, pre>>

InitRoster == \E v \in PersistedValues : InitWith(v)

\* every event finds the render of the state set before it
NextRoster ==
    \/ LoadEffect
    \/ getCameraStream
    \/ StreamAcquired
    \/ MetadataLoaded
    \/ handleRegisterClick
    \/ CancelRegistration
    \/ RenderCurrent /\ handleConfirmRegistration
    \/ RenderCurrent /\ removePerson
    \/ GalleryCallIssued
    \/ GalleryCallResolved
    \/ RenderApp

SpecRoster == InitRoster /\ [][NextRoster]_vars

\* the roster operations alone, where a second operation may be issued from
\* the render the first one was issued from (its handlers are still the ones
\* attached)
NextRosterOps ==
    \/ LoadEffect
    \/ getCameraStream
    \/ StreamAcquired
    \/ MetadataLoaded
    \/ handleRegisterClick
    \/ handleConfirmRegistration
    \/ removePerson
    \/ RenderApp

SpecRosterOps == InitRoster /\ [][NextRosterOps]_vars

\* =================================================================
\* Properties of the live analysis loop
\* =================================================================
TickStep == ticks' = ticks + 1
NotReady == {"paused", "ended", "absent"}

\* C1: at most one recognition call of the loop is outstanding in every
\* reachable state; a tick that fires while a call is outstanding issues no
\* call, and a call is only ever issued by a tick that finds none outstanding
\* (a skipped tick is not queued), across interval re-creation and restarts.
C1_AtMostOneInFlight ==
    /\ [](Cardinality(liveCalls) <= 1 /\ invocations <= ticks)
    /\ [][(TickStep /\ liveCalls # {}) =>
              (liveCalls' = liveCalls /\ invocations' = invocations)]_vars
    /\ [][invocations' # invocations =>
              (TickStep /\ liveCalls = {} /\ invocations' = invocations + 1)]_vars

\* three ticks, the second call still outstanding at the third: two invocations,
\* after the interval has been re-created at least once
C1_Witness ==
    /\ lastOp = "tickBusy" /\ ticks = 3 /\ invocations = 2
    /\ nextTimerId > 2

\* C2: once the user has stopped analysis, the resolution of a call never
\* changes the displayed faces or person count.
C2_StaleResultDiscarded ==
    (lastOp \in {"resolveOk", "resolveFail"} /\ ~isAnalyzing) =>
        (detectedFaces = pre.faces /\ personCount = pre.personCount)

\* C7: the step that stops analysis leaves the displayed faces empty and the
\* person count 0.
C7_StopClears ==
    lastOp = "stop" => (detectedFaces = <<>> /\ personCount = 0)

C7_Witness ==
    lastOp = "stop" /\ pre.faces # <<>> /\ pre.personCount > 0

\* C8: a tick that fires while the video is paused, ended or absent changes
\* nothing: no call, guard not set, display and error as before.
C8_NotReadyTickNoOp ==
    [][(TickStep /\ video \in NotReady) =>
          UNCHANGED <<liveCalls, invocations, isProcessingFrame,
                      detectedFaces, personCount, error>>]_vars

C8_Witness ==
    lastOp = "tickIdle" /\ video = "ended" /\ isAnalyzing /\ ~isProcessingFrame

\* C9: a failed recognition sets the error, releases the guard and leaves the
\* loop armed; the tick that follows it on a playing video calls the
\* collaborator.
C9_FailureKeepsLoop ==
    /\ [](lastOp = "resolveFail" =>
             (~isProcessingFrame /\ (mounted => error = AnalysisError)))
    /\ [][lastOp' = "resolveFail" =>
             UNCHANGED <<isAnalyzing, analysisIntervalRef, timers>>]_vars
    /\ [][(lastOp = "resolveFail" /\ TickStep /\ video = "playing"
             /\ lastOp' # "tickNoFrame") =>
             (lastOp' = "tickCall" /\ invocations' = invocations + 1)]_vars

C9_Witness ==
    /\ lastOp = "tickCall" /\ error = AnalysisError /\ pre.error = AnalysisError
    /\ isAnalyzing /\ invocations = 2 /\ nextTimerId = 2

\* C10: when analysis is off and no tick has fired yet (the user stopped
\* before the first tick), the collaborator is not invoked and the displayed
\* face list stays empty.
C10_StopBeforeFirstTick ==
    [][(~isAnalyzing /\ ticks = 0) =>
          (invocations' = 0 /\ detectedFaces' = <<>>)]_vars


\* C11: recording and live analysis are never both on, and a step that
\* switches one of them on finds the other one off.
C11_RecordingXorAnalysis ==
    /\ [](~(isRecording /\ isAnalyzing))
    /\ [][(~isRecording /\ isRecording') => (~isAnalyzing /\ ~isAnalyzing')]_vars
    /\ [][(~isAnalyzing /\ isAnalyzing') => (~isRecording /\ ~isRecording')]_vars

\* a recording is on after an analysis session has been run and stopped
C11_Witness ==
    /\ isRecording /\ recorderState = "recording" /\ lastOp = "startRecording"
    /\ invocations > 0 /\ ~isAnalyzing /\ analysisIntervalRef = NoTimer

\* C18: when the stream goes inactive during a recording, isRecording
\* becomes false afterwards (unless the live view is left).
C18_StreamLossStopsRecording ==
    (lastOp = "TrackEnded" /\ isRecording /\ recorderState = "recording")
        ~> (~isRecording \/ ~mounted)

\* C26: the result of a call that was issued before a stop changes neither
\* the displayed faces nor the person count when it is delivered, whether or
\* not analysis has been started again.
C26_EpochDropsStale ==
    [][\A c \in liveCalls \ liveCalls' :
          c.stopped => UNCHANGED <<detectedFaces, personCount>>]_vars

\* C27: every stop of a recording queues the events of exactly that recorder
\* once, and the delivery of a recorder's events assembles one file that
\* holds exactly the data this recorder emitted (nothing of another
\* recording, nothing missing), also when another recording has been started
\* in between; a file is assembled by nothing else.
FileOf(data) == IF data.size > 0 THEN <<data>> ELSE <<>>

C27_OneFilePerRecording ==
    /\ [][(recorderState = "recording" /\ recorderState' # "recording") =>
            (currentRecorder \notin stopping
               /\ stopping' = stopping \cup {currentRecorder})]_vars
    /\ [][\A r \in stopping \ stopping' :
            /\ stopping \ stopping' = {r}
            /\ download'.recorder = r
            /\ download'.data.recorder = r
            /\ download'.file = FileOf(download'.data)]_vars
    /\ [][download' # download => stopping' \subseteq stopping
                                   /\ stopping' # stopping]_vars
    /\ [](recordedChunksRef = <<>>)

\* the file of the previous recording is assembled while the next recording
\* is running
C27_Witness ==
    /\ lastOp = "onstop" /\ recorderState = "recording"
    /\ download.recorder # currentRecorder
    /\ download.file = <<download.data>>

\* C28: a tick whose capture yields no frame surfaces no error, issues no
\* call and leaves the guard unset, and the tick after it is not skipped as
\* busy; the guard is set exactly while a call is outstanding, and the
\* resolution of the call, by success or by failure, releases it.
C28_CaptureSkipAndRetry ==
    /\ [][lastOp' = "tickNoFrame" =>
            (TickStep /\ ~isProcessingFrame'
               /\ UNCHANGED <<error, liveCalls, invocations, detectedFaces,
                              personCount>>)]_vars
    /\ [][(lastOp = "tickNoFrame" /\ TickStep) => lastOp' # "tickBusy"]_vars
    /\ [](isProcessingFrame <=> liveCalls # {})
    /\ [][lastOp' \in {"resolveOk", "resolveFail"} =>
            (liveCalls # {} /\ liveCalls' = {} /\ ~isProcessingFrame')]_vars

\* a capture without a frame after an earlier call has resolved
C28_Witness ==
    /\ lastOp = "tickNoFrame" /\ video = "playing" /\ isAnalyzing
    /\ ~isProcessingFrame /\ liveCalls = {} /\ invocations = 1 /\ ticks = 2
    /\ error = Null

\* C30: once analysis has been stopped, the resolution of a call that was
\* in flight, by success or by failure, changes nothing that is displayed:
\* neither the faces, nor the person count, nor the error message.
C30_FrameAfterStop ==
    [][(~isAnalyzing /\ lastOp' \in {"resolveOk", "resolveFail"}) =>
          UNCHANGED <<detectedFaces, personCount, error>>]_vars

\* C23: a failed acquisition shows a message that tells its cause (denial,
\* unsupported environment, unknown failure) from the two others, and
\* getCameraStream is called once: never again after a failure.
C23_CameraErrors ==
    /\ [](cameraFailure # "none" =>
            /\ cameraError # Null /\ error = cameraError
            /\ \A c \in FailureCauses \ {cameraFailure} :
                  \A e \in ErrorsOf(c) : cameraError # CatchMessage(e))
    /\ [](attempts <= 1)
    /\ [][cameraFailure # "none" => attempts' = attempts]_vars

\* =================================================================
\* Properties of the roster and of frame capture
\* =================================================================
RosterNext == arrays'[knownPeople'.ref]
IsPerson(v) == v.t = "person"
IsRoster(items) == \A i \in DOMAIN items : IsPerson(items[i])
\* the stored text is the text of a list of KnownPerson
ValidPayload(st) ==
    /\ st.present
    /\ JSONparse(st.text).ok
    /\ IsArray(JSONparse(st.text).v)
    /\ IsRoster(JSONparse(st.text).v.items)

\* C13: the entries of the roster have pairwise distinct ids.
C13_UniqueIds ==
    (loaded /\ IsArray(knownPeople) /\ IsRoster(Roster)) =>
        \A i, j \in DOMAIN Roster : i # j => Roster[i].id # Roster[j].id

\* C14: an add appends one entry with the given name and image and keeps the
\* entries before it; a remove takes out one entry and keeps the others in
\* their order; a remove of the id just added gives back the roster before
\* the add.
C14_AddRemove ==
    /\ [][lastOp' = "addPerson" =>
            \E name \in Names, now \in ClockReadings :
                RosterNext = Append(Roster, Person(PersonId(now), name, snapshot))]_vars
    /\ [][lastOp' = "removePerson" =>
            \E i \in DOMAIN Roster :
                RosterNext = [k \in 1..(Len(Roster) - 1) |->
                                 IF k < i THEN Roster[k] ELSE Roster[k + 1]]]_vars
    /\ [][(lastOp = "addPerson" /\ lastOp' = "removePerson"
            /\ \A k \in DOMAIN RosterNext :
                   IdOf(RosterNext[k]) # IdOf(Roster[Len(Roster)])) =>
            RosterNext = SubSeq(Roster, 1, Len(Roster) - 1)]_vars

\* C15: after the load the roster in memory is a list of KnownPerson, and it
\* is empty unless the stored text was the text of such a list.
C15_LoadYieldsRoster ==
    lastOp = "LoadEffect" =>
        /\ ~appCrashed
        /\ IsArray(knownPeople)
        /\ IsRoster(Roster)
        /\ (~ValidPayload(storage) => Roster = <<>>)

\* C16: the array handed to a call in flight keeps the contents it had when
\* the call was issued, whatever adds and removes follow.
C16_GallerySnapshot ==
    /\ [](\A c \in rosterCalls :
             c.ref \in DOMAIN arrays /\ arrays[c.ref] = c.seen)
    /\ [][\A c \in rosterCalls \cap rosterCalls' :
             c.ref \in DOMAIN arrays' /\ arrays'[c.ref] = arrays[c.ref]]_vars

\* the roster has grown by an add while the call still holds the old array
C16_Witness ==
    /\ lastOp = "addPerson"
    /\ \E c \in rosterCalls :
          /\ Len(c.seen) = 1 /\ Len(Roster) = 2
          /\ c.ref # knownPeople.ref

\* C17: the text saved by a roster operation parses back to the roster in
\* memory, and loading the saved text of a roster yields that roster: same
\* entries (id, name, image) in the same order.
C17_RoundTrip ==
    /\ (lastOp \in {"addPerson", "removePerson"} =>
          /\ storage.present
          /\ JSONparse(storage.text) = [ok |-> TRUE, v |-> JArray(Roster)])
    /\ (lastOp = "LoadEffect" =>
          \A r \in SavedRosters :
              storage = Stored(JSONstringify(r)) =>
                  (IsArray(knownPeople) /\ Roster = r))

\* a roster of two entries has been saved
C17_Witness ==
    /\ lastOp = "addPerson" /\ Len(Roster) = 2 /\ IsRoster(Roster)
    /\ Roster[1].image # Roster[2].image

\* the stored text is the text of the roster in memory
InSync ==
    /\ IsArray(knownPeople)
    /\ storage = Stored(JSONstringify(Roster))

\* C24: every add and every remove leaves the stored roster equal to the
\* roster in memory, and no later step makes them differ, whichever render
\* the operations were issued from.
C24_PersistedEqualsMemory ==
    /\ [][lastOp' \in {"addPerson", "removePerson"} => InSync']_vars
    /\ [][InSync => InSync']_vars

\* a second operation was issued from the render the first one came from:
\* the person added first has been dropped from memory and from the store
C24_Witness ==
    /\ lastOp = "removePerson" /\ stale /\ InSync
    /\ Len(RenderedRoster) = 2 /\ Len(Roster) = 1

\* C19: captureFrame hands a frame to its caller (the tick, the Register
\* button) only when the video element is attached and has dimensions.
C19_NotReadyGivesNull ==
    [][lastOp' \in {"registerFrame", "tickCall"} =>
          (video # "absent" /\ videoWidth > 0)]_vars

\* =================================================================
\* Properties of the batch pipeline
\* =================================================================
RunStart == {k \in DOMAIN startStatus : startStatus[k] \in {"pending", "error"}}
DoneAtStart == {k \in DOMAIN startStatus : startStatus[k] = "done"}
ErrorAtStart == {k \in DOMAIN startStatus : startStatus[k] = "error"}
RunCompleted == lastOp = "batchJoin"
Items == Range(imageFiles)
ListKept == {Key(f) : f \in Items} = DOMAIN startStatus

\* C3: when a run completes, every item that was Pending or Error at its
\* start is Done or Error (none Pending, none Processing), and every such
\* item was submitted, whatever calls failed.
C3_RunSettlesAll ==
    RunCompleted =>
        /\ \A f \in Items :
              Key(f) \in RunStart => f.status \in {"done", "error"}
        /\ \A k \in RunStart : submitted[k] >= 1

\* four items through three workers, the first failed, the last one done
C3_Witness ==
    /\ RunCompleted /\ ListKept /\ Cardinality(RunStart) = 4
    /\ imageFiles[1].status = "error" /\ imageFiles[4].status = "done"

\* C4: within a run no item is submitted twice and no two outstanding calls
\* are for the same item; at the end each item that was Pending or Error at
\* the start was submitted exactly once.
C4_NoItemTwice ==
    /\ \A k \in DOMAIN submitted : submitted[k] <= 1
    /\ \A c1, c2 \in batchCalls :
          (c1.id = c2.id /\ c1.file = c2.file) => c1 = c2
    /\ RunCompleted => \A k \in RunStart : submitted[k] = 1

C4_Witness ==
    /\ RunCompleted /\ Cardinality(RunStart) = 4
    /\ \A k \in RunStart : submitted[k] = 1

\* C5: a run submits exactly the items that are Pending or Error when it
\* starts; a Done item is never submitted and, as long as the list is not
\* replaced, keeps its status and its result.
C5_DoneNeverResubmitted ==
    /\ [](\A k \in DoneAtStart : submitted[k] = 0)
    /\ [](RunCompleted =>
            \A k \in DOMAIN submitted :
                submitted[k] = IF k \in RunStart THEN 1 ELSE 0)
    /\ [][\A i \in DOMAIN imageFiles :
            (imageFiles[i].status = "done" /\ lastOp' # "handleFileChange") =>
                /\ i \in DOMAIN imageFiles'
                /\ imageFiles'[i].status = "done"
                /\ imageFiles'[i].result = imageFiles[i].result]_vars

\* a re-run over two Done and two Error items has made exactly two calls
C5_Witness ==
    /\ RunCompleted /\ ListKept
    /\ Cardinality(DoneAtStart) = 2 /\ Cardinality(ErrorAtStart) = 2
    /\ RunStart = ErrorAtStart
    /\ \A k \in ErrorAtStart : submitted[k] = 1

\* C6: at most 3 calls of the batch are outstanding, at most 3 items are
\* Processing, and no worker has two calls outstanding.
C6_PoolOfThree ==
    /\ Cardinality(batchCalls) <= 3
    /\ Cardinality({i \in DOMAIN imageFiles :
                       imageFiles[i].status = "processing"}) <= 3
    /\ \A c1, c2 \in batchCalls : c1.w = c2.w => c1 = c2

\* three calls outstanding while an item is still waiting in the queue
C6_Witness ==
    /\ Cardinality(batchCalls) = 3 /\ queue # <<>>
    /\ Cardinality({i \in DOMAIN imageFiles :
                       imageFiles[i].status = "processing"}) = 3

Processing == {i \in DOMAIN imageFiles : imageFiles[i].status = "processing"}

\* C12: the running flag is true whenever a call of the run is outstanding,
\* an item is Processing or the queue is not drained; it turns false only in
\* a step after which every worker has finished with the queue empty and no
\* call outstanding; and while it is true no run is started.
C12_RunningUntilJoin ==
    /\ []((batchCalls # {} \/ Processing # {} \/ queue # <<>>) => isBatchLoading)
    /\ [][(isBatchLoading /\ ~isBatchLoading') =>
            (AllFinished(worker') /\ queue' = <<>> /\ batchCalls' = {})]_vars
    /\ [][isBatchLoading =>
            /\ startStatus' = startStatus
            /\ \A k \in DOMAIN submitted :
                  k \in DOMAIN submitted' /\ submitted'[k] >= submitted[k]]_vars

\* the flag is still up while the last call of a four-item run is outstanding
\* and the two other workers have already returned
C12_Witness ==
    /\ isBatchLoading /\ Cardinality(batchCalls) = 1 /\ queue = <<>>
    /\ Cardinality({w \in DOMAIN worker : worker[w] = "finished"}) = 2
    /\ Cardinality(RunStart) = 4

\* the changes of status of the lifecycle
Lifecycle ==
    {<<"pending", "processing">>, <<"error", "processing">>,
     <<"processing", "done">>, <<"processing", "error">>}

\* C25: an item (the same id and File at the same place of the list) changes
\* its status only along the lifecycle, a Done item keeps its status, and an
\* item has a result exactly when it is Done.
C25_ItemLifecycle ==
    /\ [](\A i \in DOMAIN imageFiles :
             (imageFiles[i].result # NoResult) <=> (imageFiles[i].status = "done"))
    /\ [][\A i \in (DOMAIN imageFiles) \cap (DOMAIN imageFiles') :
             (/\ Key(imageFiles'[i]) = Key(imageFiles[i])
              /\ imageFiles'[i].status # imageFiles[i].status) =>
                 <<imageFiles[i].status, imageFiles'[i].status>> \in Lifecycle]_vars

\* =================================================================
\* Properties of the display geometry
\* =================================================================
IsOne(sc) == sc = FromInt(1)

\* C20: whenever the display has been rendered with unknown dimensions
\* (both zero) and its effect has run, the scale is 1.
C20_UnknownDimsScaleOne ==
    (DisplayMounted /\ ~DisplayEffectPending /\ CurrentDims = NoSize) =>
        IsOne(scale)

\* C21: once the scale has been computed for the rendered dimensions and the
\* container's size, the scaled media is not wider and not taller than the
\* container, and it is as wide or as tall as the container.
C21_ScaledFits ==
    (DisplayMounted /\ ~DisplayEffectPending /\ CurrentDims # NoSize) =>
        /\ scale = MinScale(clientSize, CurrentDims)
        /\ AtMost(scaledWidth, FromInt(clientSize.width))
        /\ AtMost(scaledHeight, FromInt(clientSize.height))
        /\ \/ scaledWidth = FromInt(clientSize.width)
           \/ scaledHeight = FromInt(clientSize.height)

\* the frame of rect lies inside the overlay (0% .. 100% of its width and
\* of its height)
InsideOverlay(rect) ==
    /\ 0 <= rect.left /\ rect.left + rect.width <= 100
    /\ 0 <= rect.top  /\ rect.top + rect.height <= 100

\* C22: the frame drawn for a face whose box has x, y, width and height
\* between 0 and 1 lies inside the overlay of scaledWidth by scaledHeight.
C22_BoxInsideMedia ==
    \A i \in DOMAIN faces :
        (/\ faces[i].x \in Quarters /\ faces[i].y \in Quarters
         /\ faces[i].width \in Quarters /\ faces[i].height \in Quarters)
            => InsideOverlay(FaceRect(faces[i]))


\* C29: while a call that never resolves is outstanding, the run stays
\* running, the worker that issued the call stays at its await and the item
\* of the call stays Processing; and when every other call resolves, the
\* other workers finish and every other item that was Pending or Error at
\* the start of the run gets to Done or Error.
HungCalls == {c \in batchCalls : Hung(c)}
HungOutstanding == HungCalls # {}
OthersSettled ==
    /\ \A f \in Items :
          (Key(f) \in RunStart /\ \A c \in HungCalls : Key(f) # <<c.id, c.file>>)
              => f.status \in {"done", "error"}
    /\ \A w \in DOMAIN worker :
          (\A c \in HungCalls : c.w # w) => worker[w] = "finished"

C29_HungStallsOnlyItsWorker ==
    /\ [](\A c \in HungCalls :
            /\ isBatchLoading /\ runActive
            /\ worker[c.w] = "awaiting"
            /\ \A f \in Items :
                  Key(f) = <<c.id, c.file>> => f.status = "processing")
    /\ HungOutstanding ~> (HungOutstanding /\ OthersSettled)

\* four files: the second one hangs, the other three are settled, the
\* fourth by one of the two workers that are left
C29_Witness ==
    /\ HungOutstanding /\ OthersSettled /\ ListKept /\ Len(imageFiles) = 4
    /\ isBatchLoading /\ imageFiles[2].status = "processing"
    /\ imageFiles[1].status = "error" /\ imageFiles[4].status = "done"

\* C31: in the photo and in the video analyzer every displayed face stems
\* from an analysis of the file that is selected now, and so does a person
\* count that is displayed: the result of an analysis of a file selected earlier is never displayed.
C31_ResultOfSelectedMedia ==
    \A v \in Views :
        /\ \A i \in DOMAIN shot[v].detectedFaces :
               shot[v].detectedFaces[i].seenIn = shot[v].file
        /\ shot[v].personCount > 0 => shot[v].countOf = shot[v].file

\* C32: once the live view has been released (it is unmounted and its
\* cleanups have run), no acquired camera stream has a live track, whether
\* the stream was acquired before the release or arrived after it.
Released == ~mounted /\ effectPending = "none"

C32_StreamTornDown == Released => ~streamActive

\* C33: a step of the workers (a start of the run, or a resolution with the
\* worker's next turn) changes only the items of the calls that it settles
\* or issues: of an item whose call is issued only the status, and of no
\* item the intrinsic size; and the load of an image changes of its item
\* only the intrinsic size and of the other items nothing.
Settled == {c.id : c \in batchCalls \ batchCalls'}
Issued == {c.id : c \in batchCalls' \ batchCalls}
SameButFor(f, g, fields) ==
    \A k \in DOMAIN f \ fields : g[k] = f[k]

C33_PerItemUpdates ==
    /\ [][batchCalls' # batchCalls =>
            /\ DOMAIN imageFiles' = DOMAIN imageFiles
            /\ \A i \in DOMAIN imageFiles :
                  LET f == imageFiles[i]
                      g == imageFiles'[i]
                  IN /\ g.naturalSize = f.naturalSize
                     /\ f.id \notin Settled \cup Issued => g = f
                     /\ f.id \in Issued \ Settled =>
                            SameButFor(f, g, {"status"})
                     /\ SameButFor(f, g, {"status", "result"})]_vars
    /\ [][lastOp' = "ImageLoaded" =>
            /\ DOMAIN imageFiles' = DOMAIN imageFiles
            /\ \A i \in DOMAIN imageFiles :
                  SameButFor(imageFiles[i], imageFiles'[i], {"naturalSize"})
            /\ Cardinality({i \in DOMAIN imageFiles :
                               imageFiles'[i] # imageFiles[i]}) = 1]_vars

\* the fourth image, the only one loaded so far, has loaded while its call
\* was outstanding, after the first item was done
C33_Witness ==
    /\ lastOp = "ImageLoaded" /\ isBatchLoading /\ Len(imageFiles) = 4
    /\ imageFiles[4].status = "processing" /\ imageFiles[4].naturalSize # NoSize
    /\ \A i \in 1..3 : imageFiles[i].naturalSize = NoSize
    /\ imageFiles[1].status = "done" /\ imageFiles[1].result # NoResult

=========================================================================
